---------------------------- MODULE Spec2Model ----------------------------
(***************************************************************************)
(* gcloud compute instances attach-disk                                    *)
(* (lib/surface/compute/instances/attach_disk.py).                         *)
(*                                                                         *)
(* One invocation of the command is a straight-line run of Args followed   *)
(* by Run: the option namespace is built by the parser that the track's    *)
(* Args configured, then Run resolves the instance and the disk, maps the  *)
(* mode, loads the customer supplied encryption keys, assembles the        *)
(* AttachedDisk and the ComputeInstancesAttachDiskRequest messages and     *)
(* hands the request to client.MakeRequests.  Every statement of Run is    *)
(* one action; an exception raised by a statement ends the invocation.     *)
(*                                                                         *)
(* An optional value (a Python None, an unset message field) is the empty  *)
(* sequence; a present value v is <<v>>.                                   *)
(***************************************************************************)
EXTENDS Naturals, Sequences, FiniteSets, TLC

VARIABLES
    track,          \* self.ReleaseTrack(): the class that was registered for the track
    argv,           \* what the caller typed, per option
    env,            \* the answers of the collaborators (resolver, parser policy)
    run,            \* number of the current invocation
    pc,             \* the statement of Args/Run about to execute, "done" or "error"
    err,            \* the exception that ended the invocation, if any
    args,           \* the parsed namespace: option dest -> value
    reads,          \* track specific dests Run has read from args
    instance_ref,   \* Run's locals
    disk_ref,
    mode,
    csek_keys,
    disk_key_or_none,
    attached_disk,
    request,
    sent            \* requests handed to client.MakeRequests, with their invocation

vars == << track, argv, env, run, pc, err, args, reads, instance_ref, disk_ref,
           mode, csek_keys, disk_key_or_none, attached_disk, request, sent >>

locals == << instance_ref, disk_ref, mode, csek_keys, disk_key_or_none,
             attached_disk, request >>

None == << >>
Some(v) == << v >>
Val(o) == o[1]

\* Number of invocations of the command that are followed.
MaxRuns == 2

-----------------------------------------------------------------------------
(* Release tracks and the options each track's Args registers.             *)

GA == "GA"
BETA == "BETA"
ALPHA == "ALPHA"
Tracks == {GA, BETA, ALPHA}

\* MODE_OPTIONS with a third mode added that Run's mapping does not know.
MODE_OPTIONS_extra == {"ro", "rw", "rx"}

\* The keys of MODE_OPTIONS, handed to --mode as its choices.
MODE_OPTIONS == {"ro", "rw"}

\* default='rw' of --mode.
ModeDefault == "rw"

\* AttachDisk.Args, AttachDiskBeta.Args, AttachDiskAlpha.Args: the keyword
\* arguments each passes to _Args.
support_disk_scope(t) == t \in {BETA, ALPHA}
support_force_attach(t) == t \in {BETA, ALPHA}
support_boot(t) == t = ALPHA

CommonDests == {"disk", "device_name", "mode", "csek_key_file"}
TrackDests == {"disk_scope", "force_attach", "boot"}

\* The dests _Args adds to the parser of track t.
Registered(t) ==
    CommonDests
      \cup (IF support_disk_scope(t) THEN {"disk_scope"} ELSE {})
      \cup (IF support_force_attach(t) THEN {"force_attach"} ELSE {})
      \cup (IF support_boot(t) THEN {"boot"} ELSE {})


-----------------------------------------------------------------------------
(* The command line and the parser.                                        *)

\* Whether the caller typed the track specific option d.
Given(av, d) ==
    CASE d = "disk_scope" -> av.disk_scope # None
      [] d = "force_attach" -> av.force_attach
      [] d = "boot" -> av.boot

\* Options the caller typed that the parser of track t does not know.
Unrecognized(t, av) == {d \in TrackDests \ Registered(t) : Given(av, d)}

\* The default flags.AddDiskScopeFlag gives --disk-scope.
DiskScopeDefault == "zonal"

\* The value the parser stores under dest d: the typed value, else the
\* default of the add_argument call (None when it names no default; False
\* for a store_true flag).
Stored(av, d) ==
    CASE d = "disk" -> Val(av.disk)
      [] d = "device_name" -> av.device_name
      [] d = "mode" -> IF av.mode = None THEN ModeDefault ELSE Val(av.mode)
      [] d = "csek_key_file" -> av.csek_key_file
      [] d = "disk_scope" ->
             IF av.disk_scope = None THEN DiskScopeDefault ELSE Val(av.disk_scope)
      [] d = "force_attach" -> av.force_attach
      [] d = "boot" -> av.boot

\* The exception the parser raises for command line av on track t, if any.
\* A value outside the choices is refused while the option is consumed, a
\* missing required option after the last one, and an option the track did
\* not register last: it is refused, or dropped when the parser is lenient.
ParseError(t, av, lenient) ==
    IF av.mode # None /\ Val(av.mode) \notin MODE_OPTIONS THEN Some("InvalidEnumValue")
    ELSE IF av.disk = None THEN Some("MissingRequiredOption")
    ELSE IF Unrecognized(t, av) # {} /\ ~lenient THEN Some("UnrecognizedArguments")
    ELSE None

\* The namespace the parser of track t returns: one attribute per
\* registered dest and no other.
Namespace(t, av) == [d \in Registered(t) |-> Stored(av, d)]

NoArgs == [d \in {} |-> None]

-----------------------------------------------------------------------------
(* Resources.                                                              *)

ZONE == "ZONE"
REGION == "REGION"

Project == "my-project"
Zone == "us-central1-a"
InstanceName == "example-instance"
TargetDisk == "disk-1"
OtherDisk == "disk-2"

\* utils.ZoneNameToRegionName: the zone name without its last "-x".
ZoneNameToRegionName(z) == IF z = "us-central1-a" THEN "us-central1" ELSE z

\* flags.INSTANCE_ARG.ResolveAsResource: the instance reference.
InstanceRef == [project |-> Project, zone |-> Zone, name |-> InstanceName]

\* instance_utils.ParseDiskResource(resources, name, project, zone, type).
ParseDiskResource(name, project, zone, type) ==
    IF type = REGION
    THEN [collection |-> "compute.regionDisks", project |-> project,
          location |-> ZoneNameToRegionName(zone), name |-> name]
    ELSE [collection |-> "compute.disks", project |-> project,
          location |-> zone, name |-> name]

\* disk_ref.SelfLink(): the reference as a URI.
SelfLink(ref) ==
    << "projects", ref.project,
       IF ref.collection = "compute.regionDisks" THEN "regions" ELSE "zones",
       ref.location, "disks", ref.name >>

-----------------------------------------------------------------------------
(* Customer supplied encryption keys (csek_utils).                         *)

RAW == "raw"
RSA == "rsa-encrypted"

\* One entry of a key file: the URI of the disk it is for, the key type and
\* the key material.
KeyEntry(name, type, ktype, key) ==
    [uri |-> SelfLink(ParseDiskResource(name, Project, Zone, type)),
     key_type |-> ktype, key |-> key]

\* CsekKeyStore.FromArgs(args, allow_rsa_encrypted): whether loading the key
\* file raises.  A file holding an RSA wrapped key is refused unless RSA
\* wrapped keys are allowed.
FromArgsRaises(file, allow_rsa_encrypted) ==
    /\ file # None
    /\ ~allow_rsa_encrypted
    /\ \E e \in Val(file) : e.key_type = RSA

\* CsekKeyStore.FromArgs: the key store, a map from disk URI to key; None
\* when no key file was named.
FromArgs(file) ==
    IF file = None THEN None
    ELSE Some([u \in {e.uri : e \in Val(file)} |->
                 LET e == CHOOSE x \in Val(file) : x.uri = u IN
                 [key_type |-> e.key_type, key |-> e.key]])

\* csek_utils.MaybeLookupKeyMessage(csek_keys, resource, compute_client):
\* the CustomerEncryptionKey message of the store's key for the resource;
\* None without a store or without a key for the resource.
MaybeLookupKeyMessage(keys, ref) ==
    IF keys = None THEN None
    ELSE IF SelfLink(ref) \notin DOMAIN Val(keys) THEN None
    ELSE LET k == Val(keys)[SelfLink(ref)] IN
         Some(IF k.key_type = RSA
              THEN [rawKey |-> None, rsaEncryptedKey |-> Some(k.key)]
              ELSE [rawKey |-> Some(k.key), rsaEncryptedKey |-> None])

-----------------------------------------------------------------------------
(* The statements of Run.                                                  *)

\* Run with the request handed to the transport before the keys are loaded.
Steps_send_early ==
    << "Args", "ResolveInstance", "ParseDiskRef", "Mode", "MakeRequests",
       "FromArgs", "LookupKey", "AttachedDisk", "Boot", "Request",
       "ForceAttach" >>

\* The statements of Args and Run in program order.
Steps ==
    << "Args", "ResolveInstance", "ParseDiskRef", "Mode", "FromArgs",
       "LookupKey", "AttachedDisk", "Boot", "Request", "ForceAttach",
       "MakeRequests" >>

\* The statement after p; "done" after the last one.
Succ(p) ==
    LET i == CHOOSE k \in 1..Len(Steps) : Steps[k] = p IN
    IF i = Len(Steps) THEN "done" ELSE Steps[i + 1]

\* ParseDiskRef of the track's class: the attributes it reads from args.
\* AttachDisk.ParseDiskRef reads no track specific one; the override of
\* AttachDiskBeta, inherited by AttachDiskAlpha, reads disk_scope.
ParseDiskRefReads(t) == IF t \in {BETA, ALPHA} THEN {"disk_scope"} ELSE {}

\* ParseDiskRef without the override: the zone scope whatever was asked.
BetaScope_zone_only(disk_scope) == ZONE

\* AttachDiskBeta.ParseDiskRef: the scope for the caller's disk scope.
BetaScope(disk_scope) == IF disk_scope = "regional" THEN REGION ELSE ZONE

\* The scope ParseDiskRef of the track's class resolves the disk with.
ParseDiskRefScope(t, ns) ==
    IF t \in {BETA, ALPHA} THEN BetaScope(ns.disk_scope) ELSE ZONE

\* The mode mapping with its branches exchanged.
ModeValue_swapped(m) == IF m = "rw" THEN "READ_ONLY" ELSE "READ_WRITE"

\* The mode enum value for args.mode.
ModeValue(m) == IF m = "rw" THEN "READ_WRITE" ELSE "READ_ONLY"

\* allow_rsa_encrypted without the BETA track.
AllowRsaEncrypted_alpha_only(t) == t = ALPHA

\* allow_rsa_encrypted.
AllowRsaEncrypted(t) == t \in {ALPHA, BETA}

\* The key looked up for the zonal disk of that name instead of disk_ref.
DiskKeyOrNone_zonal(keys, ref) ==
    MaybeLookupKeyMessage(keys, ParseDiskResource(ref.name, ref.project, Zone, ZONE))

\* disk_key_or_none: the key message looked up for the resolved disk.
DiskKeyOrNone(keys, ref) == MaybeLookupKeyMessage(keys, ref)

\* client.messages.AttachedDisk(...): boot is left unset.
AttachedDiskMessage(ns, m, ref, key) ==
    [deviceName |-> ns.device_name,
     mode |-> m,
     source |-> Some(SelfLink(ref)),
     type |-> Some("PERSISTENT"),
     diskEncryptionKey |-> key,
     boot |-> None]

\* The condition with its operands exchanged: args.boot is read first.
BootReads_boot_first(t) == {"boot"}

\* The attributes the condition `track == ALPHA and args.boot` evaluates.
BootReads(t) == IF t = ALPHA THEN {"boot"} ELSE {}

\* The boot statement without `and args.boot`: ALPHA always sets the field.
BootField_always(t, ns) == IF t = ALPHA THEN Some(ns.boot) ELSE None

\* attached_disk.boot after the boot statement.
BootField(t, ns) == IF t = ALPHA /\ ns.boot THEN Some(ns.boot) ELSE None

\* The request with a field counting the requests made so far.
RequestMessage_nonce(iref, ad) ==
    [instance |-> Some(iref.name),
     project |-> Some(iref.project),
     attachedDisk |-> ad,
     zone |-> Some(iref.zone),
     forceAttach |-> None,
     requestId |-> Some(Len(sent))]

\* client.messages.ComputeInstancesAttachDiskRequest(...): forceAttach is
\* left unset.
RequestMessage(iref, ad) ==
    [instance |-> Some(iref.name),
     project |-> Some(iref.project),
     attachedDisk |-> ad,
     zone |-> Some(iref.zone),
     forceAttach |-> None]

\* The forceAttach statement without the BETA track.
ForceAttachTracks_alpha_only == {ALPHA}

\* The tracks on which Run sets request.forceAttach.
ForceAttachTracks == {ALPHA, BETA}

\* The attributes the forceAttach statement reads.
ForceAttachReads(t) == IF t \in ForceAttachTracks THEN {"force_attach"} ELSE {}

\* request.forceAttach after the forceAttach statement.
ForceAttachField(t, ns) ==
    IF t \in ForceAttachTracks THEN Some(ns.force_attach) ELSE None

-----------------------------------------------------------------------------
(* Inputs.                                                                 *)

\* The key files a caller may name: none, an empty one, a key for the
\* target disk in its zone or in its region, a key for another disk.
KeyFiles ==
    { None,
      Some({}),
      Some({KeyEntry(TargetDisk, ZONE, RAW, "key-a")}),
      Some({KeyEntry(TargetDisk, ZONE, RSA, "key-b")}),
      Some({KeyEntry(TargetDisk, REGION, RAW, "key-c")}),
      Some({KeyEntry(OtherDisk, ZONE, RAW, "key-d")}),
      Some({KeyEntry(OtherDisk, ZONE, RSA, "key-e")}),
      Some({KeyEntry(TargetDisk, ZONE, RAW, "key-a"),
            KeyEntry(OtherDisk, ZONE, RSA, "key-e")}) }

\* The command lines: "rx" is a --mode value outside the choices.
Argvs ==
    [disk : {None, Some(TargetDisk)},
     device_name : {None, Some("sdb")},
     mode : {None, Some("ro"), Some("rw"), Some("rx")},
     disk_scope : {None, Some("zonal"), Some("regional")},
     force_attach : BOOLEAN,
     boot : BOOLEAN,
     csek_key_file : KeyFiles]

\* The collaborators' answers, the same on every invocation: whether the
\* instance and the disk resolve, and whether the parser drops an option
\* the track did not register instead of refusing it.
Envs == [instance_ok : BOOLEAN, disk_ok : BOOLEAN, lenient : BOOLEAN]

-----------------------------------------------------------------------------
(* Actions.                                                                *)

Init ==
    /\ track \in Tracks
    /\ argv \in Argvs
    /\ env \in Envs
    /\ run = 1
    /\ pc = "Args"
    /\ err = None
    /\ args = NoArgs
    /\ reads = {}
    /\ instance_ref = None
    /\ disk_ref = None
    /\ mode = None
    /\ csek_keys = None
    /\ disk_key_or_none = None
    /\ attached_disk = None
    /\ request = None
    /\ sent = << >>

inputs == << track, argv, env, run >>

\* An exception leaves Run: the invocation ends.
Raise(e) == pc' = "error" /\ err' = Some(e)

\* The next statement.
Continue == pc' = Succ(pc) /\ err' = err

\* Reading the track specific attributes rd of args: an attribute the
\* namespace lacks raises AttributeError.
Readable(rd) == rd \subseteq DOMAIN args

\* Args and the parse of the command line.
ParseArgs ==
    /\ pc = "Args"
    /\ LET e == ParseError(track, argv, env.lenient) IN
       IF e # None
       THEN Raise(Val(e)) /\ args' = args
       ELSE Continue /\ args' = Namespace(track, argv)
    /\ UNCHANGED << inputs, reads, locals, sent >>

\* instance_ref = flags.INSTANCE_ARG.ResolveAsResource(...)
ResolveInstance ==
    /\ pc = "ResolveInstance"
    /\ IF env.instance_ok
       THEN Continue /\ instance_ref' = Some(InstanceRef)
       ELSE Raise("ResourceResolutionError") /\ instance_ref' = instance_ref
    /\ UNCHANGED << inputs, args, reads, disk_ref, mode, csek_keys,
                    disk_key_or_none, attached_disk, request, sent >>

\* disk_ref = self.ParseDiskRef(holder.resources, args, instance_ref)
ParseDiskRef ==
    /\ pc = "ParseDiskRef"
    /\ LET rd == ParseDiskRefReads(track) IN
       IF ~Readable(rd)
       THEN Raise("AttributeError") /\ UNCHANGED << reads, disk_ref >>
       ELSE /\ reads' = reads \cup rd
            /\ IF env.disk_ok
               THEN /\ Continue
                    /\ disk_ref' = Some(ParseDiskResource(
                                       args.disk,
                                       Val(instance_ref).project,
                                       Val(instance_ref).zone,
                                       ParseDiskRefScope(track, args)))
               ELSE Raise("ResourceResolutionError") /\ disk_ref' = disk_ref
    /\ UNCHANGED << inputs, args, instance_ref, mode, csek_keys,
                    disk_key_or_none, attached_disk, request, sent >>

\* if args.mode == 'rw': mode = READ_WRITE else: mode = READ_ONLY
Mode ==
    /\ pc = "Mode"
    /\ mode' = Some(ModeValue(args.mode))
    /\ Continue
    /\ UNCHANGED << inputs, args, reads, instance_ref, disk_ref, csek_keys,
                    disk_key_or_none, attached_disk, request, sent >>

\* csek_keys = csek_utils.CsekKeyStore.FromArgs(args, allow_rsa_encrypted)
LoadKeys ==
    /\ pc = "FromArgs"
    /\ IF FromArgsRaises(args.csek_key_file, AllowRsaEncrypted(track))
       THEN Raise("UnsupportedKeyType") /\ csek_keys' = csek_keys
       ELSE Continue /\ csek_keys' = FromArgs(args.csek_key_file)
    /\ UNCHANGED << inputs, args, reads, instance_ref, disk_ref, mode,
                    disk_key_or_none, attached_disk, request, sent >>

\* disk_key_or_none = csek_utils.MaybeLookupKeyMessage(csek_keys, disk_ref, ...)
LookupKey ==
    /\ pc = "LookupKey"
    /\ disk_key_or_none' = DiskKeyOrNone(csek_keys, Val(disk_ref))
    /\ Continue
    /\ UNCHANGED << inputs, args, reads, instance_ref, disk_ref, mode,
                    csek_keys, attached_disk, request, sent >>

\* attached_disk = client.messages.AttachedDisk(...)
BuildAttachedDisk ==
    /\ pc = "AttachedDisk"
    /\ attached_disk' =
           Some(AttachedDiskMessage(args, mode, Val(disk_ref), disk_key_or_none))
    /\ Continue
    /\ UNCHANGED << inputs, args, reads, instance_ref, disk_ref, mode,
                    csek_keys, disk_key_or_none, request, sent >>

\* if self.ReleaseTrack() == ALPHA and args.boot: attached_disk.boot = args.boot
SetBoot ==
    /\ pc = "Boot"
    /\ LET rd == BootReads(track) IN
       IF ~Readable(rd)
       THEN Raise("AttributeError") /\ UNCHANGED << reads, attached_disk >>
       ELSE /\ reads' = reads \cup rd
            /\ attached_disk' =
                   Some([Val(attached_disk) EXCEPT !.boot = BootField(track, args)])
            /\ Continue
    /\ UNCHANGED << inputs, args, instance_ref, disk_ref, mode, csek_keys,
                    disk_key_or_none, request, sent >>

\* request = client.messages.ComputeInstancesAttachDiskRequest(...)
BuildRequest ==
    /\ pc = "Request"
    /\ request' = Some(RequestMessage(Val(instance_ref), attached_disk))
    /\ Continue
    /\ UNCHANGED << inputs, args, reads, instance_ref, disk_ref, mode,
                    csek_keys, disk_key_or_none, attached_disk, sent >>

\* if self.ReleaseTrack() in (ALPHA, BETA): request.forceAttach = args.force_attach
SetForceAttach ==
    /\ pc = "ForceAttach"
    /\ LET rd == ForceAttachReads(track) IN
       IF ~Readable(rd)
       THEN Raise("AttributeError") /\ UNCHANGED << reads, request >>
       ELSE /\ reads' = reads \cup rd
            /\ request' =
                   Some([Val(request) EXCEPT
                            !.forceAttach = ForceAttachField(track, args)])
            /\ Continue
    /\ UNCHANGED << inputs, args, instance_ref, disk_ref, mode, csek_keys,
                    disk_key_or_none, attached_disk, sent >>

\* return client.MakeRequests([(instances, 'AttachDisk', request)]): the
\* request goes to the transport, which answers or fails.
MakeRequests ==
    /\ pc = "MakeRequests"
    /\ sent' = Append(sent, [run |-> run, request |-> request])
    /\ \E ok \in BOOLEAN :
          IF ok THEN Continue ELSE Raise("TransportError")
    /\ UNCHANGED << inputs, args, reads, locals >>

\* The command is invoked again with the same command line on the same
\* track: a new process, whose Run starts from fresh locals.
Reinvoke ==
    /\ pc \in {"done", "error"}
    /\ run < MaxRuns
    /\ run' = run + 1
    /\ pc' = "Args"
    /\ err' = None
    /\ args' = NoArgs
    /\ reads' = {}
    /\ instance_ref' = None
    /\ disk_ref' = None
    /\ mode' = None
    /\ csek_keys' = None
    /\ disk_key_or_none' = None
    /\ attached_disk' = None
    /\ request' = None
    /\ UNCHANGED << track, argv, env, sent >>

Next ==
    \/ ParseArgs
    \/ ResolveInstance
    \/ ParseDiskRef
    \/ Mode
    \/ LoadKeys
    \/ LookupKey
    \/ BuildAttachedDisk
    \/ SetBoot
    \/ BuildRequest
    \/ SetForceAttach
    \/ MakeRequests
    \/ Reinvoke

Spec == Init /\ [][Next]_vars

-----------------------------------------------------------------------------
(* Properties.                                                             *)

\* The requests handed to the transport, by any invocation.
Emitted == {sent[i].request : i \in 1..Len(sent)}

\* Whether invocation r handed a request to the transport.
SentBy(r) == \E i \in 1..Len(sent) : sent[i].run = r

\* The AttachedDisk of an emitted request.
DiskOf(r) == Val(Val(r).attachedDisk)

\* C1: in every request handed to the transport the attached disk's boot
\* field is set if and only if the track is ALPHA and the caller typed
\* --boot, and then it is True; on GA and BETA, and on ALPHA without
\* --boot, it is absent.
C1_BootOnlyOnAlpha ==
    \A r \in Emitted :
        /\ (DiskOf(r).boot # None) <=> (track = ALPHA /\ argv.boot)
        /\ DiskOf(r).boot \in {None, Some(TRUE)}

\* An ALPHA invocation with --boot emitted a request whose boot is set.
C1_Witness ==
    /\ track = ALPHA
    /\ argv.boot
    /\ \E r \in Emitted : DiskOf(r).boot = Some(TRUE)

\* C2: in every request handed to the transport forceAttach is populated
\* if and only if the track is BETA or ALPHA, and then it is the caller's
\* --force-attach (False when the flag was not typed); on GA it is absent.
C2_ForceAttachOnBetaAlpha ==
    \A r \in Emitted :
        Val(r).forceAttach =
            IF track \in {BETA, ALPHA} THEN Some(argv.force_attach) ELSE None

\* A BETA invocation without --force-attach emitted forceAttach = False.
C2_Witness ==
    /\ track = BETA
    /\ ~argv.force_attach
    /\ \E r \in Emitted : Val(r).forceAttach = Some(FALSE)

\* C3: a resolved disk reference is a regional one exactly when the track
\* is BETA or ALPHA and the caller's disk scope is 'regional'; on GA, and
\* with any other or no disk scope, it is a zonal one.
C3_DiskScope ==
    disk_ref # None =>
        Val(disk_ref) =
            IF track \in {BETA, ALPHA} /\ argv.disk_scope = Some("regional")
            THEN [collection |-> "compute.regionDisks", project |-> Project,
                  location |-> "us-central1", name |-> Val(argv.disk)]
            ELSE [collection |-> "compute.disks", project |-> Project,
                  location |-> Zone, name |-> Val(argv.disk)]

\* A BETA invocation with --disk-scope regional resolved a regional disk.
C3_Witness ==
    /\ track = BETA
    /\ argv.disk_scope = Some("regional")
    /\ disk_ref # None
    /\ Val(disk_ref).collection = "compute.regionDisks"

\* C4: every request handed to the transport has its mode set: READ_WRITE
\* when the caller typed --mode rw or no --mode, READ_ONLY when the caller
\* typed --mode ro.
C4_ModeAlwaysSet ==
    \A r \in Emitted :
        /\ argv.mode \in {None, Some("rw"), Some("ro")}
        /\ DiskOf(r).mode =
               IF argv.mode = Some("ro") THEN Some("READ_ONLY") ELSE Some("READ_WRITE")

\* An invocation without --mode emitted a READ_WRITE request.
C4_Witness ==
    /\ argv.mode = None
    /\ \E r \in Emitted : DiskOf(r).mode = Some("READ_WRITE")

\* Whether the caller's key file holds an RSA wrapped key.
HasRsaKey ==
    /\ argv.csek_key_file # None
    /\ \E e \in Val(argv.csek_key_file) : e.key_type = RSA

\* C5: UnsupportedKeyType is raised only on GA and only for a key file
\* holding an RSA wrapped key; on GA with such a file no request is ever
\* emitted and an invocation that gets as far as loading the keys ends
\* with UnsupportedKeyType; on BETA and ALPHA every request emitted for a
\* disk the file holds an RSA wrapped key for carries that key.
C5_RsaKeyByTrack ==
    /\ err = Some("UnsupportedKeyType") => track = GA /\ HasRsaKey
    /\ track = GA /\ HasRsaKey =>
          /\ sent = << >>
          /\ pc \in {"Args", "ResolveInstance", "ParseDiskRef", "Mode",
                     "FromArgs", "error"}
          /\ pc = "error" /\ mode # None => err = Some("UnsupportedKeyType")
    /\ track \in {BETA, ALPHA} /\ HasRsaKey =>
          \A r \in Emitted :
              \A e \in Val(argv.csek_key_file) :
                  e.key_type = RSA /\ Some(e.uri) = DiskOf(r).source =>
                      DiskOf(r).diskEncryptionKey =
                          Some([rawKey |-> None, rsaEncryptedKey |-> Some(e.key)])

\* A GA invocation with an RSA wrapped key ended with UnsupportedKeyType.
C5_Witness ==
    /\ track = GA
    /\ HasRsaKey
    /\ err = Some("UnsupportedKeyType")
    /\ sent = << >>

\* C6: an invocation that handed a request to the transport did so once,
\* after the instance and the disk were resolved, the mode mapped, the
\* keys looked up and boot and forceAttach gated, and it raised none of
\* MissingRequiredOption, InvalidEnumValue, ResourceResolutionError and
\* UnsupportedKeyType (nor any error but the transport's own); so an
\* invocation that ended with one of these errors emitted nothing.
C6_NoPartialRequest ==
    \A i \in 1..Len(sent) :
        sent[i].run = run =>
            /\ err \in {None, Some("TransportError")}
            /\ pc \in {"done", "error"}
            /\ instance_ref # None /\ disk_ref # None /\ mode # None
            /\ attached_disk # None /\ request # None
            /\ sent[i].request = request
            /\ Val(request).attachedDisk = attached_disk
            /\ \A j \in 1..Len(sent) : sent[j].run = run => j = i

\* The disk did not resolve after the instance had: the invocation ended
\* with ResourceResolutionError and emitted nothing.
C6_Witness ==
    /\ pc = "error"
    /\ err = Some("ResourceResolutionError")
    /\ instance_ref # None
    /\ ~SentBy(run)

\* C7: the diskEncryptionKey of every request handed to the transport is
\* the key the caller's key file holds for the request's disk, and absent
\* when the caller named no key file or the file holds no key for that disk.
C7_KeyOnlyForTargetDisk ==
    \A r \in Emitted :
        LET match == IF argv.csek_key_file = None THEN {}
                     ELSE {e \in Val(argv.csek_key_file) :
                              Some(e.uri) = DiskOf(r).source}
            key == DiskOf(r).diskEncryptionKey
        IN  /\ match = {} => key = None
            /\ key # None =>
                  \E e \in match :
                      Val(key) \in {[rawKey |-> Some(e.key), rsaEncryptedKey |-> None],
                                    [rawKey |-> None, rsaEncryptedKey |-> Some(e.key)]}

\* A request was emitted with the raw key the file holds for its disk.
C7_Witness ==
    \E r \in Emitted :
        /\ DiskOf(r).diskEncryptionKey # None
        /\ Val(DiskOf(r).diskEncryptionKey).rawKey = Some("key-a")

C9_ParserRejects ==
    LET bad_mode == argv.mode # None /\ Val(argv.mode) \notin {"ro", "rw"}
        no_disk == argv.disk = None
    IN  bad_mode \/ no_disk =>
            /\ pc \in {"Args", "error"}
            /\ pc = "error" =>
                  \/ bad_mode /\ err = Some("InvalidEnumValue")
                  \/ no_disk /\ err = Some("MissingRequiredOption")
            /\ mode = None /\ attached_disk = None /\ request = None
            /\ sent = << >>

\* An invocation with an unrecognized --mode ended with InvalidEnumValue.
C9_Witness ==
    /\ argv.mode = Some("rx")
    /\ argv.disk # None
    /\ pc = "error"
    /\ err = Some("InvalidEnumValue")

\* C10: Run reads a track specific option only if the track's Args
\* registered it: no read on GA, never boot on BETA, and no invocation
\* ends with an AttributeError.
C10_ReadsOnlyRegistered ==
    /\ reads \subseteq TrackDests \cap Registered(track)
    /\ track = GA => reads = {}
    /\ track = BETA => "boot" \notin reads
    /\ pc # "Args" /\ pc # "error" => reads \subseteq DOMAIN args
    /\ err # Some("AttributeError")

\* A BETA invocation completed having read disk_scope and force_attach.
C10_Witness ==
    /\ track = BETA
    /\ pc = "done"
    /\ reads = {"disk_scope", "force_attach"}

=============================================================================
